---------------------------- MODULE Spec2Model ----------------------------
(*
  particle-hand-tracker: a model of the gesture classifier
  (services/GestureRecognizer.ts, hooks/useGestureDetection.ts), of the
  throttle gate (hooks/useThrottle.ts) and of the particle morph engine
  (hooks/useParticleSystem.ts, utils/math/interpolation.ts).

  Each subsystem has its own specification over the shared variables:
    SpecGesture   the detector delivers landmark frames, each is classified
    SpecThrottle  useThrottle under renders, timers and a clock
    SpecMorph     useParticleSystem: initialisation, setTarget, ticks
    SpecPure      mapGestureToShape, lerpPositions and lerpColors called on their own
    SpecText      getTextCoordinates' scan of a rendered raster
    SpecTracking  useMediaPipeScripts and useHandTracking: script loads, the
                  tracking effect, unmount and remount
    SpecHost      ParticleHandTracker: the hooks wired together, with a fair
                  event loop
  A JavaScript array a with indices 0..n-1 is the sequence with indices 1..n;
  At(a, k) reads a[k].
*)
EXTENDS Integers, Sequences, FiniteSets, TLC

VARIABLES
  landmarks,       \* useHandTracking state: [present, points]; present = FALSE is null
  gestureResult,   \* useGestureDetection useMemo value: [name, confidence]
  fingerState,     \* recognizeGesture's local `state` in the last classification
  recognizerRan,   \* the last useMemo evaluation constructed a GestureRecognizer
  renderError,     \* the last useMemo evaluation threw (TypeError reaches the ErrorBoundary)
  \* useThrottle
  now,             \* Date.now(), in ms
  value,           \* the hook's argument at the latest render: [name, ref]
  throttledValue,  \* useState: the value the hook returns
  lastRun,         \* useRef: lastRun.current
  timers,          \* the pending setTimeout callbacks: [handle, due, value]
  handler,         \* the handle the latest effect's cleanup will clear
  emissions,       \* history: the setThrottledValue calls, [time, value, latest]
  \* useParticleSystem
  scene,           \* the hook's scene argument: 0 is null, else a scene's identity
  targetShape,     \* the hook's targetShape argument
  shapesRef,       \* shapesRef.current: NoShapes is null, else shape key -> point array
  currentShape,    \* useState: the active shape
  targetPositions, \* targetPositionsRef.current: [ref, items]
  targetColors,    \* targetColorsRef.current: [ref, items]
  allocs,          \* target array pairs allocated so far (the next arrays' identity)
  geometryRef,     \* geometryRef.current: 0 is null, else the scene it was built for
  positions,       \* the position attribute's Float32Array, one <<x, y, z>> per particle
  colors,          \* the color attribute's Float32Array, one <<r, g, b>> per particle
  frames,          \* the requested animation frames: [loop, shape], shape captured by animate
  animationIdRef,  \* animationIdRef.current: 0 is null, else the loop of the latest request
  ticks,           \* interpolation steps applied so far
  posLerpFactor,   \* posLerpFactor of the latest interpolation step
  tickError,       \* the latest animate call threw a TypeError
  initError,       \* the initialization effect threw (no 2D context for the text shapes)
  generated,       \* history: shape key -> number of times its point set was generated
  targetSource,    \* history: the point set the targets were built from, [shape, generation]
  sceneRef,        \* the host's useThreeScene sceneRef.current: the scene its render loop renders
  unmounted,       \* the hook's component is unmounted: the last cleanup has run
  span,            \* history: per coordinate of the position buffer, the interval [lo, hi]
                   \* spanned by its initial value and the targets it was given since
  \* calls of the pure functions
  mapArg,          \* the gestureName of the latest mapGestureToShape / getGestureDisplayName call
  mapResult,       \* their results: [shape, displayName]
  pFactor,         \* the position factor of the latest one-particle interpolation
  pPositions,      \* lerpPositions' positions argument (one particle)
  pColors,         \* lerpColors' colors argument (one particle)
  pTargets,        \* the targets of both (one particle)
  pTicks,          \* interpolation calls since the buffers were last drawn
  imageData,       \* getTextCoordinates' imageData.data: byte index -> value
  coords,          \* the coords it returns for that raster
  \* useMediaPipeScripts and useHandTracking
  scriptsLoaded,   \* useState: [hands, camera], the scripts whose load event has fired
  handsRef,        \* handsRef.current: 0 is null, else the Hands instance's identity
  cameraRef,       \* cameraRef.current: 0 is null, else the Camera instance's identity
  openHands,       \* the Hands instances constructed and not closed
  liveCameras,     \* the Camera instances constructed and not stopped
  cleanupFn,       \* the latest run of the tracking effect returned its cleanup function
  trackingMounted, \* the component that calls the two hooks is mounted
  mounts           \* component instances mounted so far (the identity of what this one creates)

gvars == <<landmarks, gestureResult, fingerState, recognizerRan, renderError>>
tvars == <<now, value, throttledValue, lastRun, timers, handler, emissions>>
mvars == <<scene, targetShape, shapesRef, currentShape, targetPositions, targetColors, allocs,
           geometryRef, positions, colors, frames, animationIdRef, ticks,
           posLerpFactor, tickError, initError, generated, targetSource, sceneRef,
           unmounted, span>>
pvars == <<mapArg, mapResult, pFactor, pPositions, pColors, pTargets, pTicks,
           imageData, coords>>
kvars == <<scriptsLoaded, handsRef, cameraRef, openHands, liveCameras, cleanupFn,
           trackingMounted, mounts>>

-----------------------------------------------------------------------------
(* config/constants.ts: LANDMARK_INDICES, GESTURE_CONFIG *)

THUMB_TIP == 4
INDEX_MCP == 5
INDEX_PIP == 6
INDEX_TIP == 8
MIDDLE_PIP == 10
MIDDLE_TIP == 12
RING_PIP == 14
RING_TIP == 16
PINKY_PIP == 18
PINKY_TIP == 20
OPEN_PALM_FINGER_COUNT == 4

-----------------------------------------------------------------------------
(* Bounds of the landmark frames the detector delivers *)

MaxY == 1      \* y coordinates range over 0..MaxY
MaxXZ == 1     \* x and z coordinates range over 0..MaxXZ
MaxLen == 22   \* frames have 0..MaxLen points

YValues == 0..MaxY
XZValues == 0..MaxXZ

\* The landmarks whose y the bounded detector moves: the five tips, and the
\* index finger's MCP, PIP joints (every other joint keeps the rest pose).
MovedY == {THUMB_TIP, INDEX_TIP, MIDDLE_TIP, RING_TIP, PINKY_TIP, INDEX_MCP, INDEX_PIP}
\* The landmarks whose x and z it moves.
MovedXZ == {INDEX_TIP}

RestLandmark == [x |-> 0, y |-> 1, z |-> 0]

NullLandmarks == [present |-> FALSE, points |-> <<>>]
Hand(points) == [present |-> TRUE, points |-> points]

-----------------------------------------------------------------------------
(* services/GestureRecognizer.ts *)

\* landmarks[k] of a JavaScript array: defined iff k < length
Defined(points, k) == k < Len(points)
At(points, k) == points[k + 1]

\* isFingerUp(tipIdx, pipIdx): this.landmarks[tipIdx].y < this.landmarks[pipIdx].y
isFingerUp_le(points, tipIdx, pipIdx) == At(points, tipIdx).y <= At(points, pipIdx).y
isFingerUp(points, tipIdx, pipIdx) == At(points, tipIdx).y < At(points, pipIdx).y

\* isThumbUp(): landmarks[THUMB_TIP].y < landmarks[INDEX_MCP].y
isThumbUp(points) == At(points, THUMB_TIP).y < At(points, INDEX_MCP).y

\* The landmark indices getFingerState dereferences (.y of landmarks[k])
Dereferenced ==
  {THUMB_TIP, INDEX_MCP, INDEX_TIP, INDEX_PIP, MIDDLE_TIP, MIDDLE_PIP,
   RING_TIP, RING_PIP, PINKY_TIP, PINKY_PIP}

\* Reading .y of undefined throws a TypeError
Throws(points) == \E k \in Dereferenced : ~Defined(points, k)

getFingerState(points) ==
  [thumb  |-> isThumbUp(points),
   index  |-> isFingerUp(points, INDEX_TIP, INDEX_PIP),
   middle |-> isFingerUp(points, MIDDLE_TIP, MIDDLE_PIP),
   ring   |-> isFingerUp(points, RING_TIP, RING_PIP),
   pinky  |-> isFingerUp(points, PINKY_TIP, PINKY_PIP)]

countRaisedFingers_withThumb(state) ==
  (IF state.thumb THEN 1 ELSE 0) + (IF state.index THEN 1 ELSE 0)
  + (IF state.middle THEN 1 ELSE 0) + (IF state.ring THEN 1 ELSE 0)
  + (IF state.pinky THEN 1 ELSE 0)
countRaisedFingers(state) ==
  (IF state.index THEN 1 ELSE 0) + (IF state.middle THEN 1 ELSE 0)
  + (IF state.ring THEN 1 ELSE 0) + (IF state.pinky THEN 1 ELSE 0)

Gesture(name, confidence) == [name |-> name, confidence |-> confidence]

\* recognizeGesture() on a finger state; confidence 1.0 is 1, 0.0 is 0
decide_anyFingerIsIndex(state) ==
  LET fingersUpCount == countRaisedFingers(state) IN
  IF state.thumb /\ fingersUpCount = 0 THEN Gesture("thumbs-up", 1)
  ELSE IF fingersUpCount = 1 THEN Gesture("index", 1)
  ELSE IF state.index /\ state.middle /\ ~state.ring /\ ~state.pinky THEN Gesture("peace", 1)
  ELSE IF state.index /\ state.middle /\ state.ring /\ ~state.pinky THEN Gesture("three-fingers", 1)
  ELSE IF fingersUpCount >= OPEN_PALM_FINGER_COUNT THEN Gesture("open-palm", 1)
  ELSE IF fingersUpCount = 0 THEN Gesture("fist", 1)
  ELSE Gesture("none", 0)
decide_fistFirst(state) ==
  LET fingersUpCount == countRaisedFingers(state) IN
  IF fingersUpCount = 0 THEN Gesture("fist", 1)
  ELSE IF state.thumb /\ fingersUpCount = 0 THEN Gesture("thumbs-up", 1)
  ELSE IF state.index /\ ~state.middle /\ ~state.ring /\ ~state.pinky THEN Gesture("index", 1)
  ELSE IF state.index /\ state.middle /\ ~state.ring /\ ~state.pinky THEN Gesture("peace", 1)
  ELSE IF state.index /\ state.middle /\ state.ring /\ ~state.pinky THEN Gesture("three-fingers", 1)
  ELSE IF fingersUpCount >= OPEN_PALM_FINGER_COUNT THEN Gesture("open-palm", 1)
  ELSE Gesture("none", 0)
decide(state) ==
  LET fingersUpCount == countRaisedFingers(state) IN
  IF state.thumb /\ fingersUpCount = 0 THEN Gesture("thumbs-up", 1)
  ELSE IF state.index /\ ~state.middle /\ ~state.ring /\ ~state.pinky THEN Gesture("index", 1)
  ELSE IF state.index /\ state.middle /\ ~state.ring /\ ~state.pinky THEN Gesture("peace", 1)
  ELSE IF state.index /\ state.middle /\ state.ring /\ ~state.pinky THEN Gesture("three-fingers", 1)
  ELSE IF fingersUpCount >= OPEN_PALM_FINGER_COUNT THEN Gesture("open-palm", 1)
  ELSE IF fingersUpCount = 0 THEN Gesture("fist", 1)
  ELSE Gesture("none", 0)

recognizeGesture(points) == decide(getFingerState(points))

\* gestureToShapeMap: the object literal's own properties
gestureToShapeMap ==
  [g \in {"thumbs-up", "index", "peace", "three-fingers", "open-palm", "fist", "none"} |->
     CASE g = "thumbs-up"     -> "scatter"
       [] g = "index"         -> "hello"
       [] g = "peace"         -> "gemini"
       [] g = "three-fingers" -> "sinhala-great"
       [] g = "open-palm"     -> "sphere"
       [] g = "fist"          -> "sinhala-hello"
       [] g = "none"          -> "sphere"]

\* Property names every object literal inherits from Object.prototype (some of them)
ObjectPrototypeKeys == {"constructor", "toString", "__proto__"}
\* The value of an inherited property: a function or an object, never a string of the map
Inherited(key) == "Object.prototype." \o key
JSUndefined == "undefined"

\* obj[key] of an object literal: own property, else the prototype chain, else undefined
Get_ownOnly(obj, key) == IF key \in DOMAIN obj THEN obj[key] ELSE JSUndefined
Get(obj, key) ==
  IF key \in DOMAIN obj THEN obj[key]
  ELSE IF key \in ObjectPrototypeKeys THEN Inherited(key)
  ELSE JSUndefined

\* a || b: an inherited function or object is truthy, undefined is not
Or(a, b) == IF a = JSUndefined \/ a = "" THEN b ELSE a

\* return gestureToShapeMap[gestureName] || 'sphere'
mapGestureToShape_allSphere(gestureName) == "sphere"
mapGestureToShape(gestureName) == Or(Get(gestureToShapeMap, gestureName), "sphere")

\* No classification has produced a finger state
NoFingerState ==
  [thumb |-> FALSE, index |-> FALSE, middle |-> FALSE, ring |-> FALSE, pinky |-> FALSE]

-----------------------------------------------------------------------------
(* hooks/useGestureDetection.ts: the useMemo that classifies the landmarks *)

\* !landmarks || landmarks.length === 0
NoHand_nullOnly(lm) == ~lm.present
NoHand(lm) == ~lm.present \/ Len(lm.points) = 0

\* displayNames of getGestureDisplayName
displayNames ==
  [g \in {"thumbs-up", "index", "peace", "three-fingers", "open-palm", "fist", "none"} |->
     CASE g = "thumbs-up"     -> "BLAST!"
       [] g = "index"         -> "Hello"
       [] g = "peace"         -> "Gemini"
       [] g = "three-fingers" -> "Niyamai (Great)"
       [] g = "open-palm"     -> "Open Palm"
       [] g = "fist"          -> "Ayubowan"
       [] g = "none"          -> "STANDBY"]

\* return displayNames[gestureName] || 'STANDBY'
getGestureDisplayName(gestureName) == Or(Get(displayNames, gestureName), "STANDBY")

\* useMemo re-evaluates for the new landmarks lm
useMemo_keepsGesture(lm) ==
  /\ IF NoHand(lm)
       THEN /\ gestureResult' = Gesture("none", 0)
            /\ fingerState' = NoFingerState
            /\ recognizerRan' = FALSE
            /\ renderError' = FALSE
       ELSE /\ recognizerRan' = TRUE
            /\ IF Throws(lm.points)
                 THEN /\ renderError' = TRUE
                      /\ UNCHANGED <<gestureResult, fingerState>>
                 ELSE /\ renderError' = FALSE
                      /\ fingerState' = getFingerState(lm.points)
                      /\ gestureResult' = IF recognizeGesture(lm.points).name = "none"
                                            THEN gestureResult
                                            ELSE recognizeGesture(lm.points)
useMemo(lm) ==
  /\ IF NoHand(lm)
       THEN /\ gestureResult' = Gesture("none", 0)
            /\ fingerState' = NoFingerState
            /\ recognizerRan' = FALSE
            /\ renderError' = FALSE
       ELSE /\ recognizerRan' = TRUE
            /\ IF Throws(lm.points)
                 THEN /\ renderError' = TRUE
                      /\ UNCHANGED <<gestureResult, fingerState>>
                 ELSE /\ renderError' = FALSE
                      /\ fingerState' = getFingerState(lm.points)
                      /\ gestureResult' = recognizeGesture(lm.points)

\* The render that follows setLandmarks(lm)
Classify(lm) ==
  /\ UNCHANGED <<tvars, mvars, pvars, kvars>>
  /\ useMemo(lm)

-----------------------------------------------------------------------------
(* hooks/useThreeScene.ts (useHandTracking): hands.onResults sets the landmarks;
   the detector's frames are enumerated one change at a time *)

\* onResults with multiHandLandmarks[0] = points
onResults(points) ==
  /\ ~renderError
  /\ landmarks' = Hand(points)
  /\ Classify(landmarks')

\* onResults with no multiHandLandmarks: setLandmarks(null)
HandLost ==
  /\ ~renderError
  /\ landmarks.present
  /\ landmarks' = NullLandmarks
  /\ Classify(landmarks')

\* A hand comes into view in the rest pose; a malformed frame has n # 21 points
HandAppears ==
  /\ ~landmarks.present
  /\ \E n \in 0..MaxLen : onResults([k \in 1..n |-> RestLandmark])

\* The next frame has landmark k at another height
MoveY ==
  /\ landmarks.present
  /\ \E k \in MovedY, v \in YValues :
       /\ Defined(landmarks.points, k)
       /\ At(landmarks.points, k).y # v
       /\ onResults([landmarks.points EXCEPT ![k + 1].y = v])

\* The next frame has landmark k at another x or z
MoveXZ ==
  /\ landmarks.present
  /\ \E k \in MovedXZ, v \in XZValues :
       /\ Defined(landmarks.points, k)
       /\ \/ At(landmarks.points, k).x # v
             /\ onResults([landmarks.points EXCEPT ![k + 1].x = v])
          \/ At(landmarks.points, k).z # v
             /\ onResults([landmarks.points EXCEPT ![k + 1].z = v])

\* The next frame is malformed: it has lost its last point
DropPoint ==
  /\ landmarks.present
  /\ Len(landmarks.points) > 0
  /\ onResults(SubSeq(landmarks.points, 1, Len(landmarks.points) - 1))

\* The next frame has one more point
ExtraPoint ==
  /\ landmarks.present
  /\ Len(landmarks.points) < MaxLen
  /\ onResults(Append(landmarks.points, RestLandmark))

\* components/ErrorBoundary.tsx handleReset: the subtree is mounted again
handleReset ==
  /\ renderError
  /\ landmarks' = NullLandmarks
  /\ gestureResult' = Gesture("none", 0)
  /\ fingerState' = NoFingerState
  /\ recognizerRan' = FALSE
  /\ renderError' = FALSE
  /\ UNCHANGED <<tvars, mvars, pvars, kvars>>

GestureInit ==
  /\ landmarks = NullLandmarks
  /\ gestureResult = Gesture("none", 0)
  /\ fingerState = NoFingerState
  /\ recognizerRan = FALSE
  /\ renderError = FALSE

GestureNext ==
  \/ HandAppears
  \/ HandLost
  \/ MoveY
  \/ MoveXZ
  \/ DropPoint
  \/ ExtraPoint
  \/ handleReset


-----------------------------------------------------------------------------
(* hooks/useThrottle.ts.  A render of the hook with a changed dependency and
   the effect it commits (the previous effect's cleanup, then the effect) are
   one step; a timer callback runs at or after its due time. *)

\* useGestureDetection(landmarks, throttleMs = 100)
Delay == 100

MaxTime == 300     \* the clock stops at MaxTime ms
MaxInputs == 3     \* at most MaxInputs new input values arrive after mount

TimeSteps == {10, 40, 50}
ThrottleInputs == {"none", "fist", "thumbs-up"}

\* A value is an object: ref is its identity, fresh for every new input
Input(name, ref) == [name |-> name, ref |-> ref]

Max(a, b) == IF a >= b THEN a ELSE b

\* setTimeout(callback, ms) at time t: due after ms, at once when ms <= 0
setTimeout(h, v, ms, t) == [handle |-> h, due |-> t + Max(0, ms), value |-> v]

\* clearTimeout(handle)
clearTimeout(pending, h) == {t \in pending : t.handle # h}

\* The effect's cleanup: clearTimeout(handler)
Cleanup_none(pending, h) == pending
Cleanup(pending, h) == clearTimeout(pending, h)

\* The delay the effect asks for: delay - (Date.now() - lastRun.current)
TimerDelay(t, last) == Delay - (t - last)

\* if (timeSinceLastRun >= delay)
ShouldRun_strict(timeSinceLastRun) == timeSinceLastRun > Delay
ShouldRun(timeSinceLastRun) == timeSinceLastRun >= Delay

\* lastRun.current = now, after setThrottledValue(value)
ResetClock_never(t, last) == last
ResetClock(t, last) == t

\* A render with a new value, and the effect of [value, delay] changing
useThrottle(v) ==
  /\ value' = v
  /\ timers' = Cleanup(timers, handler)
                 \cup {setTimeout(value'.ref, value', TimerDelay(now, lastRun), now)}
  /\ handler' = value'.ref
  /\ UNCHANGED <<now, throttledValue, lastRun, emissions>>

\* The hook on its own: the new value is any of ThrottleInputs
Render ==
  /\ value.ref < MaxInputs
  /\ now + Delay <= MaxTime
  /\ \E name \in ThrottleInputs : useThrottle(Input(name, value.ref + 1))
  /\ UNCHANGED <<gvars, mvars, pvars, kvars>>

\* The setTimeout callback of the effect that captured t.value
handlerCallback(t) ==
  /\ now >= t.due
  /\ timers' = timers \ {t}
  /\ IF ShouldRun(now - lastRun)
       THEN /\ throttledValue' = t.value
            /\ lastRun' = ResetClock(now, lastRun)
            /\ emissions' = Append(emissions,
                              [time |-> now, value |-> t.value, latest |-> value])
       ELSE UNCHANGED <<throttledValue, lastRun, emissions>>
  /\ UNCHANGED <<now, value, handler>>

\* The hook on its own: a pending timer's callback runs
TimerFires ==
  \E t \in timers :
    /\ handlerCallback(t)
    /\ UNCHANGED <<gvars, mvars, pvars, kvars>>

\* Time passes
Advance ==
  /\ \E d \in TimeSteps : now + d <= MaxTime /\ now' = now + d
  /\ UNCHANGED <<value, throttledValue, lastRun, timers, handler, emissions>>
  /\ UNCHANGED <<gvars, mvars, pvars, kvars>>

\* The hook is mounted at time 0 with the value `none`; its first effect has run
ThrottleInit ==
  /\ now = 0
  /\ value = Input("none", 0)
  /\ throttledValue = value
  /\ lastRun = 0
  /\ timers = {setTimeout(0, value, TimerDelay(0, 0), 0)}
  /\ handler = 0
  /\ emissions = <<>>

ThrottleNext ==
  \/ Render
  \/ TimerFires
  \/ Advance

-----------------------------------------------------------------------------
(* config/constants.ts, scaled: a coordinate or colour channel c is the integer
   c * Scale, a lerp factor f is the integer f * 100.  With Scale a multiple of
   20^3 * 10 the interpolation below is exact for three steps. *)

Scale == 20 * 20 * 20 * 10

COUNT == 2                    \* PARTICLE_CONFIG.COUNT, 10000 in the source
DEFAULT_LERP_FACTOR == 5      \* 0.05
SCATTER_LERP_FACTOR == 10     \* 0.1
COLOR_LERP_FACTOR == 5        \* 0.05

MaxScenes == 2    \* scenes the hook is given
MaxAllocs == 3    \* calls of updateTargetShape that allocate target arrays
MaxTicks == 1     \* interpolation steps

ShapeKeys == {"sphere", "hello", "gemini", "sinhala-great", "sinhala-hello", "scatter"}
TextKeys == {"hello", "gemini", "sinhala-great", "sinhala-hello"}

Vector3(x, y, z) == <<x * Scale, y * Scale, z * Scale>>
\* A colour with channels r, g, b given in tenths
Color(r, g, b) == <<r * (Scale \div 10), g * (Scale \div 10), b * (Scale \div 10)>>
\* array[i] of an index outside the array (or NaN)
Undefined == <<>>

\* SHAPE_COLORS
SHAPE_COLORS ==
  [k \in ShapeKeys |->
     CASE k = "sphere"        -> Color(10, 6, 0)
       [] k = "hello"         -> Color(0, 10, 10)
       [] k = "gemini"        -> Color(10, 0, 10)
       [] k = "sinhala-great" -> Color(0, 10, 5)
       [] k = "sinhala-hello" -> Color(5, 0, 10)
       [] k = "scatter"       -> Color(10, 2, 2)]

-----------------------------------------------------------------------------
(* utils/geometry: the shape generators.  The points stand for the generated
   coordinates: what the engine uses of them is their number and identity. *)

\* getSphereCoordinates(count): count points at distance SPHERE_RADIUS, no randomness
getSphereCoordinates(count) ==
  [i \in 1..count |->
     CASE i % 3 = 1 -> Vector3(30, 0, 0 - (i \div 3))
       [] i % 3 = 2 -> Vector3(0, 30, 0 - (i \div 3))
       [] OTHER     -> Vector3(0, 0, 30 + (i \div 3))]

\* getScatterCoordinates(count): count random points; the draws are one of two clouds
ScatterSeeds == {1, 2}
getScatterCoordinates(count, seed) ==
  [i \in 1..count |-> Vector3(seed * 50, 0 - i * 10, (seed - 1) * 100 - 50)]

\* getTextCoordinates(text): one point per lit sampled pixel; the raster decides
\* how many: a lit text gives a number of points below, equal to or above the
\* particle count, an unlit text (no sampled pixel above the threshold) none.
\* Either every text is lit, or 'Hello' alone is unlit.
TextPoints(k) ==
  CASE k = "hello"         -> << Vector3(-12, 0, 0) >>
    [] k = "gemini"        -> [i \in 1..COUNT |-> Vector3(i, 6, 0)]
    [] k = "sinhala-great" -> [i \in 1..(COUNT + 1) |-> Vector3(i, -6, 0)]
    [] k = "sinhala-hello" -> << Vector3(-1, 1, 0), Vector3(1, -1, 0) >>
TextRasters == {[k \in TextKeys |-> TRUE], [k \in TextKeys |-> k # "hello"]}
getTextCoordinates(k, lit) == IF lit[k] THEN TextPoints(k) ELSE <<>>
\* canvas.getContext('2d') returns a context or null; on null the generator throws
Contexts2D == {TRUE, FALSE}
getTextCoordinatesThrows(ctx) == ~ctx

NoShapes == [generated |-> FALSE]
\* if (!shapesRef.current)
NeedsShapes_always(ref) == TRUE
NeedsShapes(ref) == ~ref.generated
Shapes(lit, seed) ==
  [generated |-> TRUE,
   points |-> [k \in ShapeKeys |->
                 CASE k = "sphere"  -> getSphereCoordinates(COUNT)
                   [] k = "scatter" -> getScatterCoordinates(COUNT, seed)
                   [] OTHER         -> getTextCoordinates(k, lit)]]

\* The initial position buffers: random coordinates in the +-100 cube
InitialPositions ==
  { [i \in 1..COUNT |-> Vector3(100, -100, 0)],
    [i \in 1..COUNT |-> Vector3(-20 * i, 40, 100)] }
\* colors[i*3], [i*3+1], [i*3+2] = 0, 1, 1
InitialColors == [i \in 1..COUNT |-> Color(0, 10, 10)]

-----------------------------------------------------------------------------
(* utils/math/interpolation.ts *)

\* The store into a Float32Array rounds to the nearest representable value
\* (ties to even); the representable values are the integers of the scaled grid
RoundToNearest(n, d) ==
  LET q == n \div d
      r == n % d
  IN  IF 2 * r < d THEN q
      ELSE IF 2 * r > d THEN q + 1
      ELSE IF q % 2 = 0 THEN q ELSE q + 1

\* value += (target - value) * factor
lerpStep_addsTarget(c, t, factor) == c + RoundToNearest(t * factor, 100)
lerpStep(c, t, factor) == c + RoundToNearest((t - c) * factor, 100)

\* lerpPositions / lerpColors: for i < targets.length, the three components of
\* element i move towards targets[i]; targets[i].x of undefined throws
lerpThrows(targets) == \E i \in 1..Len(targets) : targets[i] = Undefined
lerpArray(array, targets, factor) ==
  [i \in 1..Len(array) |->
     IF i <= Len(targets)
       THEN [c \in 1..3 |-> lerpStep(array[i][c], targets[i][c], factor)]
       ELSE array[i]]

-----------------------------------------------------------------------------
(* hooks/useParticleSystem.ts *)

\* shapesRef.current[shapeKey] || shapesRef.current.sphere: an array, even an
\* empty one, is truthy
PickTargets(shapes, shapeKey) ==
  IF shapeKey \in DOMAIN shapes.points THEN shapes.points[shapeKey] ELSE shapes.points["sphere"]

\* newTargets[i % newTargets.length]: i % 0 is NaN and newTargets[NaN] is undefined
TargetOf_noWrap(newTargets, i) ==
  IF i < Len(newTargets) THEN newTargets[i + 1] ELSE Undefined
TargetOf(newTargets, i) ==
  IF Len(newTargets) = 0 THEN Undefined ELSE newTargets[(i % Len(newTargets)) + 1]

\* updateTargetShape(shapeKey); seed is the draw of a regenerated scatter
\* if (shapeKey === 'scatter') newTargets = getScatterCoordinates(COUNT)
Regenerates_never(shapeKey) == FALSE
Regenerates(shapeKey) == shapeKey = "scatter"

\* shapes is shapesRef.current at the call, gen the generation history so far
updateTargetShapeOf(shapes, gen, shapeKey, seed) ==
  IF ~shapes.generated
    THEN /\ generated' = gen
         /\ UNCHANGED <<currentShape, targetPositions, targetColors, allocs, targetSource>>
    ELSE
      LET newTargets == IF Regenerates(shapeKey)
                          THEN getScatterCoordinates(COUNT, seed)
                          ELSE PickTargets(shapes, shapeKey)
          newColor == SHAPE_COLORS[shapeKey]
      IN  /\ currentShape' = shapeKey
          /\ generated' = IF Regenerates(shapeKey)
                            THEN [gen EXCEPT ![shapeKey] = @ + 1]
                            ELSE gen
          /\ targetSource' = [shape |-> shapeKey, generation |-> generated'[shapeKey]]
          /\ targetPositions' =
               [ref |-> allocs + 1,
                items |-> [i \in 1..COUNT |-> TargetOf(newTargets, i - 1)]]
          /\ targetColors' =
               [ref |-> allocs + 1, items |-> [i \in 1..COUNT |-> newColor]]
          /\ allocs' = allocs + 1

updateTargetShape(shapeKey, seed) ==
  updateTargetShapeOf(shapesRef, generated, shapeKey, seed)

\* The factor animate chooses: `shape` is the currentShape its closure captured
LerpFactorOf_aboveOne(shape) ==
  IF shape = "scatter" THEN 100 + SCATTER_LERP_FACTOR ELSE 100 + DEFAULT_LERP_FACTOR
LerpFactorOf(shape) ==
  IF shape = "scatter" THEN SCATTER_LERP_FACTOR ELSE DEFAULT_LERP_FACTOR

\* Whether a call of animate gets past its guard and interpolates
Interpolates(geometry) == geometry # 0 /\ Len(targetPositions.items) > 0

\* The body of animate after it has requested the next frame, on the buffers
\* pos and col of geometryRef.current = geometry
animateBody_unguarded(shape, geometry, pos, col) ==
  /\ posLerpFactor' = LerpFactorOf(shape)
  /\ IF Len(targetPositions.items) < Len(pos) \/ lerpThrows(targetPositions.items)
       THEN /\ tickError' = TRUE
            /\ positions' = pos
            /\ colors' = col
            /\ UNCHANGED ticks
       ELSE /\ tickError' = FALSE
            /\ positions' = lerpArray(pos, targetPositions.items, posLerpFactor')
            /\ colors' = lerpArray(col, targetColors.items, COLOR_LERP_FACTOR)
            /\ ticks' = ticks + 1
animateBody(shape, geometry, pos, col) ==
  IF ~Interpolates(geometry)
    THEN /\ positions' = pos
         /\ colors' = col
         /\ UNCHANGED <<ticks, posLerpFactor, tickError>>
    ELSE
      /\ posLerpFactor' = LerpFactorOf(shape)
      /\ IF lerpThrows(targetPositions.items)
           THEN /\ tickError' = TRUE
                /\ positions' = pos
                /\ colors' = col
                /\ UNCHANGED ticks
           ELSE /\ tickError' = FALSE
                /\ positions' = lerpArray(pos, targetPositions.items, posLerpFactor')
                /\ colors' = IF Len(targetColors.items) > 0
                               THEN lerpArray(col, targetColors.items, COLOR_LERP_FACTOR)
                               ELSE col
                /\ ticks' = ticks + 1

\* cancelAnimationFrame(animationIdRef.current) of the effect's cleanup
cancelAnimationFrame_keeps(pending, id) == pending
cancelAnimationFrame(pending, id) == {f \in pending : f.loop # id}

\* The effect of [scene]: the hook is rendered with a new scene.  The previous
\* run's cleanup, then shape generation (once), the geometry with fresh
\* buffers, and startAnimation(), whose animate() call runs at once.
\* A throw of getTextCoordinates leaves the effect before shapesRef.current is
\* assigned: nothing is built, and React unmounts the component.
\* The interval of each coordinate of a freshly filled buffer
SpanOf(pos) ==
  [i \in 1..Len(pos) |-> [c \in 1..3 |-> [lo |-> pos[i][c], hi |-> pos[i][c]]]]

\* The intervals widened by the targets the buffer is given
Spanned(s, targets) ==
  [i \in 1..Len(s) |->
     IF i <= Len(targets) /\ targets[i] # Undefined
       THEN [c \in 1..3 |-> [lo |-> IF targets[i][c] < s[i][c].lo THEN targets[i][c]
                                                                   ELSE s[i][c].lo,
                             hi |-> IF targets[i][c] > s[i][c].hi THEN targets[i][c]
                                                                   ELSE s[i][c].hi]]
       ELSE s[i]]

InitThrows(ctx) == NeedsShapes(shapesRef) /\ getTextCoordinatesThrows(ctx)

\* The generation history after the effect: the sphere is generated first,
\* then scatter, then the texts
GeneratedByInit(ctx) ==
  IF ~NeedsShapes(shapesRef) THEN generated
  ELSE IF getTextCoordinatesThrows(ctx) THEN [generated EXCEPT !["sphere"] = @ + 1]
  ELSE [k \in ShapeKeys |-> generated[k] + 1]

\* The effect's run for the scene scene', without the generation history
initEffect(ctx, lit, seed, pos) ==
  IF InitThrows(ctx)
    THEN /\ initError' = TRUE
         /\ UNCHANGED <<shapesRef, geometryRef, frames, animationIdRef, positions,
                        colors, ticks, posLerpFactor, tickError>>
    ELSE /\ initError' = FALSE
         /\ shapesRef' = IF NeedsShapes(shapesRef) THEN Shapes(lit, seed) ELSE shapesRef
         /\ geometryRef' = scene'
         /\ frames' = (IF scene = 0 THEN frames
                                    ELSE cancelAnimationFrame(frames, animationIdRef))
                        \cup {[loop |-> scene', shape |-> currentShape]}
         /\ animationIdRef' = scene'
         /\ animateBody(currentShape, scene', pos, InitialColors)

InitEffect ==
  /\ ~initError
  /\ ~unmounted
  /\ scene < MaxScenes
  /\ ticks < MaxTicks
  /\ scene' = scene + 1
  /\ \E ctx \in Contexts2D, lit \in TextRasters, seed \in ScatterSeeds,
        pos \in InitialPositions :
       /\ initEffect(ctx, lit, seed, pos)
       /\ generated' = GeneratedByInit(ctx)
       /\ span' = IF InitThrows(ctx) THEN span
                                     ELSE Spanned(SpanOf(pos), targetPositions.items)
  /\ UNCHANGED <<targetShape, currentShape, targetPositions, targetColors, allocs,
                 targetSource, sceneRef, unmounted>>
  /\ UNCHANGED <<gvars, tvars, pvars, kvars>>

\* The effect of [targetShape]: the hook is rendered with another target shape
TargetShapeEffect ==
  /\ ~initError
  /\ ~unmounted
  /\ allocs < MaxAllocs
  /\ \E shapeKey \in ShapeKeys \ {targetShape}, seed \in ScatterSeeds :
       /\ targetShape' = shapeKey
       /\ updateTargetShape(shapeKey, seed)
  /\ span' = Spanned(span, targetPositions'.items)
  /\ UNCHANGED <<scene, shapesRef, geometryRef, positions, colors, frames,
                 animationIdRef, ticks, posLerpFactor, tickError, initError,
                 sceneRef, unmounted>>
  /\ UNCHANGED <<gvars, tvars, pvars, kvars>>

\* setTargetShape of the hook's result, called by the host
setTargetShape ==
  /\ ~initError
  /\ ~unmounted
  /\ allocs < MaxAllocs
  /\ \E shapeKey \in ShapeKeys, seed \in ScatterSeeds :
       updateTargetShape(shapeKey, seed)
  /\ span' = Spanned(span, targetPositions'.items)
  /\ UNCHANGED <<scene, targetShape, shapesRef, geometryRef, positions, colors,
                 frames, animationIdRef, ticks, posLerpFactor, tickError, initError,
                 sceneRef, unmounted>>
  /\ UNCHANGED <<gvars, tvars, pvars, kvars>>

\* A requested animation frame runs: animate requests the next one, then its body
animate ==
  /\ ~initError
  /\ ticks < MaxTicks
  /\ \E f \in frames :
       /\ animationIdRef' = f.loop
       /\ animateBody(f.shape, geometryRef, positions, colors)
  /\ UNCHANGED <<scene, targetShape, shapesRef, currentShape, targetPositions,
                 targetColors, allocs, geometryRef, frames, initError, generated,
                 targetSource, sceneRef, unmounted, span>>
  /\ UNCHANGED <<gvars, tvars, pvars, kvars>>

\* The component is unmounted: the cleanup of the effect of [scene] cancels the
\* latest requested frame and disposes the geometry, the material and removes
\* the particles from the scene (no cleanup exists while scene was null)
Unmount ==
  /\ ~unmounted
  /\ ~initError
  /\ unmounted' = TRUE
  /\ frames' = IF scene = 0 THEN frames ELSE cancelAnimationFrame(frames, animationIdRef)
  /\ UNCHANGED <<scene, targetShape, shapesRef, currentShape, targetPositions,
                 targetColors, allocs, geometryRef, positions, colors, animationIdRef,
                 ticks, posLerpFactor, tickError, initError, generated, targetSource,
                 sceneRef, span>>
  /\ UNCHANGED <<gvars, tvars, pvars, kvars>>

\* The hook is mounted with scene = null and targetShape = 'sphere': both
\* effects have run and returned early
MorphInit ==
  /\ scene = 0
  /\ targetShape = "sphere"
  /\ shapesRef = NoShapes
  /\ currentShape = "sphere"
  /\ targetPositions = [ref |-> 0, items |-> <<>>]
  /\ targetColors = [ref |-> 0, items |-> <<>>]
  /\ allocs = 0
  /\ geometryRef = 0
  /\ positions = <<>>
  /\ colors = <<>>
  /\ frames = {}
  /\ animationIdRef = 0
  /\ ticks = 0
  /\ posLerpFactor = 0
  /\ tickError = FALSE
  /\ initError = FALSE
  /\ generated = [k \in ShapeKeys |-> 0]
  /\ targetSource = [shape |-> "sphere", generation |-> 0]
  /\ sceneRef = 1
  /\ unmounted = FALSE
  /\ span = <<>>

MorphNext ==
  \/ InitEffect
  \/ TargetShapeEffect
  \/ setTargetShape
  \/ animate
  \/ Unmount

-----------------------------------------------------------------------------
(* utils/textRenderer: getTextCoordinates on a raster.  The canvas is
   TEXT_CANVAS_SIZE pixels square, four bytes per pixel; a coordinate v is the
   integer v * 200, so that (x - size / 2) * 0.12 is (2 * x - size) * 12. *)

TEXT_CANVAS_SIZE == 4          \* SHAPE_CONFIG.TEXT_CANVAS_SIZE, 2048 in the source
TEXT_STEP == 2                 \* SHAPE_CONFIG.TEXT_STEP, 8 in the source
TEXT_SCALE == 12               \* 0.12
TEXT_PIXEL_THRESHOLD == 128

\* The values a rendered pixel takes: unlit, at the threshold, just above, white
PixelValues == {0, TEXT_PIXEL_THRESHOLD, TEXT_PIXEL_THRESHOLD + 1, 255}

\* The indices of imageData.data
ByteIndices == 0..(TEXT_CANVAS_SIZE * TEXT_CANVAS_SIZE * 4 - 1)

\* The canvas before fillText: transparent black
BlankImage == [i \in ByteIndices |-> 0]

\* fillText covers pixel (x, y) with white at intensity v: all four channels
fillPixel(data, x, y, v) ==
  [i \in ByteIndices |->
     IF i \div 4 = y * TEXT_CANVAS_SIZE + x THEN v ELSE data[i]]

\* pixelValue > GESTURE_CONFIG.TEXT_PIXEL_THRESHOLD
isLit_atThreshold(pixelValue) == pixelValue >= TEXT_PIXEL_THRESHOLD
isLit(pixelValue) == pixelValue > TEXT_PIXEL_THRESHOLD

\* The pixels the two loops visit, in their order: y outer, x inner
ScanOrder ==
  LET perRow == (TEXT_CANVAS_SIZE + TEXT_STEP - 1) \div TEXT_STEP
  IN  [n \in 1..(perRow * perRow) |->
         [x |-> ((n - 1) % perRow) * TEXT_STEP, y |-> ((n - 1) \div perRow) * TEXT_STEP]]

\* The loops of getTextCoordinates over imageData.data
sampleCoords(data) ==
  LET Pushed(p) == isLit(data[(p.y * TEXT_CANVAS_SIZE + p.x) * 4])
      hits == SelectSeq(ScanOrder, Pushed)
  IN  [n \in 1..Len(hits) |->
         <<(2 * hits[n].x - TEXT_CANVAS_SIZE) * TEXT_SCALE,
           0 - (2 * hits[n].y - TEXT_CANVAS_SIZE) * TEXT_SCALE,
           0>>]

\* The pixels whose coverage the rendered texts differ in: the sampled ones,
\* and two between the samples
RenderedPixels ==
  {<<x, y>> \in (0..(TEXT_CANVAS_SIZE - 1)) \X (0..(TEXT_CANVAS_SIZE - 1)) :
     x % TEXT_STEP = 0 /\ y % TEXT_STEP = 0}
  \cup {<<1, 0>>, <<TEXT_CANVAS_SIZE - 1, TEXT_CANVAS_SIZE - 1>>}

\* getTextCoordinates(text): the text's raster differs from the previous one in
\* one pixel
TextCall ==
  /\ \E p \in RenderedPixels, v \in PixelValues :
       /\ imageData[(p[2] * TEXT_CANVAS_SIZE + p[1]) * 4] # v
       /\ imageData' = fillPixel(imageData, p[1], p[2], v)
  /\ coords' = sampleCoords(imageData')
  /\ UNCHANGED <<mapArg, mapResult, pFactor, pPositions, pColors, pTargets, pTicks>>
  /\ UNCHANGED <<gvars, tvars, mvars, kvars>>

TextNext == TextCall

-----------------------------------------------------------------------------
(* The pure functions called on their own: mapGestureToShape and
   getGestureDisplayName on any string, lerpPositions and lerpColors on a
   one-particle buffer whose values are a few grid units apart *)

MaxCoord == 12        \* drawn coordinates range over -MaxCoord..MaxCoord
MaxLerpTicks == 3     \* interpolation calls per drawn buffer

Coords == (0 - MaxCoord)..MaxCoord

\* Gesture names, other strings, and names of inherited properties
MapInputs ==
  {"thumbs-up", "index", "peace", "three-fingers", "open-palm", "fist", "none",
   "wave", "", "constructor", "toString", "__proto__"}

\* mapGestureToShape(gestureName) and getGestureDisplayName(gestureName)
MapCall ==
  /\ \E gestureName \in MapInputs :
       /\ mapArg' = gestureName
       /\ mapResult' = [shape |-> mapGestureToShape(gestureName),
                        displayName |-> getGestureDisplayName(gestureName)]
  /\ UNCHANGED <<pFactor, pPositions, pColors, pTargets, pTicks, imageData, coords>>
  /\ UNCHANGED <<gvars, tvars, mvars, kvars>>

\* A one-particle buffer: one coordinate at c with target t, one the other way
\* round, one on its target
Buffers(c, t, factor) ==
  /\ pFactor' = factor
  /\ pPositions' = << <<c, t, t>> >>
  /\ pColors' = << <<c, t, t>> >>
  /\ pTargets' = << <<t, c, t>> >>

\* A buffer is drawn: it differs from the previous draw in the start value, in
\* the target or in the factor
LerpDraw ==
  /\ \/ \E c \in Coords : Buffers(c, pTargets[1][1], pFactor)
     \/ \E t \in Coords : Buffers(pTargets[1][2], t, pFactor)
     \/ \E factor \in {DEFAULT_LERP_FACTOR, SCATTER_LERP_FACTOR} :
          Buffers(pTargets[1][2], pTargets[1][1], factor)
  /\ pTicks' = 0
  /\ UNCHANGED <<mapArg, mapResult, imageData, coords>>
  /\ UNCHANGED <<gvars, tvars, mvars, kvars>>

\* lerpPositions(positions, targets, factor); lerpColors(colors, targets, COLOR_LERP_FACTOR)
LerpTick ==
  /\ pTicks < MaxLerpTicks
  /\ pPositions' = lerpArray(pPositions, pTargets, pFactor)
  /\ pColors' = lerpArray(pColors, pTargets, COLOR_LERP_FACTOR)
  /\ pTicks' = pTicks + 1
  /\ UNCHANGED <<mapArg, mapResult, pFactor, pTargets, imageData, coords>>
  /\ UNCHANGED <<gvars, tvars, mvars, kvars>>

\* The spec's example: c = 0, t = 10, f = 0.1
PureInit ==
  /\ mapArg = "none"
  /\ mapResult = [shape |-> mapGestureToShape("none"),
                  displayName |-> getGestureDisplayName("none")]
  /\ pFactor = SCATTER_LERP_FACTOR
  /\ pPositions = << <<0, 10, 10>> >>
  /\ pColors = << <<0, 10, 10>> >>
  /\ pTargets = << <<10, 0, 10>> >>
  /\ pTicks = 0
  /\ imageData = BlankImage
  /\ coords = sampleCoords(imageData)

PureNext ==
  \/ MapCall
  \/ LerpDraw
  \/ LerpTick

-----------------------------------------------------------------------------
(* The legacy monolithic component: its onResults classifies the frame inline
   and selects the shape itself.  `current` is currentShapeRef.current. *)

\* setTargetShape(shapeKey): currentShapeRef.current afterwards
legacySetTargetShape(current, shapeKey) ==
  IF current = shapeKey THEN current ELSE shapeKey

\* onResults(results): currentShapeRef.current after the decision chain
legacyOnResults_palmAtThree(lm, current) ==
  IF ~lm.present \/ Len(lm.points) = 0 THEN current
  ELSE
    LET indexUp == At(lm.points, 8).y < At(lm.points, 6).y
        middleUp == At(lm.points, 12).y < At(lm.points, 10).y
        ringUp == At(lm.points, 16).y < At(lm.points, 14).y
        pinkyUp == At(lm.points, 20).y < At(lm.points, 18).y
        thumbUp == At(lm.points, 4).y < At(lm.points, 5).y
        fingersUpCount == (IF indexUp THEN 1 ELSE 0) + (IF middleUp THEN 1 ELSE 0)
                          + (IF ringUp THEN 1 ELSE 0) + (IF pinkyUp THEN 1 ELSE 0)
    IN  IF thumbUp /\ fingersUpCount = 0 THEN legacySetTargetShape(current, "scatter")
        ELSE IF indexUp /\ ~middleUp /\ ~ringUp /\ ~pinkyUp
          THEN legacySetTargetShape(current, "hello")
        ELSE IF indexUp /\ middleUp /\ ~ringUp /\ ~pinkyUp
          THEN legacySetTargetShape(current, "gemini")
        ELSE IF fingersUpCount >= 3 THEN legacySetTargetShape(current, "sphere")
        ELSE IF indexUp /\ middleUp /\ ringUp /\ ~pinkyUp
          THEN legacySetTargetShape(current, "sinhala-great")
        ELSE IF fingersUpCount = 0 THEN legacySetTargetShape(current, "sinhala-hello")
        ELSE current
legacyOnResults(lm, current) ==
  IF ~lm.present \/ Len(lm.points) = 0 THEN current
  ELSE
    LET indexUp == At(lm.points, 8).y < At(lm.points, 6).y
        middleUp == At(lm.points, 12).y < At(lm.points, 10).y
        ringUp == At(lm.points, 16).y < At(lm.points, 14).y
        pinkyUp == At(lm.points, 20).y < At(lm.points, 18).y
        thumbUp == At(lm.points, 4).y < At(lm.points, 5).y
        fingersUpCount == (IF indexUp THEN 1 ELSE 0) + (IF middleUp THEN 1 ELSE 0)
                          + (IF ringUp THEN 1 ELSE 0) + (IF pinkyUp THEN 1 ELSE 0)
    IN  IF thumbUp /\ fingersUpCount = 0 THEN legacySetTargetShape(current, "scatter")
        ELSE IF indexUp /\ ~middleUp /\ ~ringUp /\ ~pinkyUp
          THEN legacySetTargetShape(current, "hello")
        ELSE IF indexUp /\ middleUp /\ ~ringUp /\ ~pinkyUp
          THEN legacySetTargetShape(current, "gemini")
        ELSE IF indexUp /\ middleUp /\ ringUp /\ ~pinkyUp
          THEN legacySetTargetShape(current, "sinhala-great")
        ELSE IF fingersUpCount >= 4 THEN legacySetTargetShape(current, "sphere")
        ELSE IF fingersUpCount = 0 THEN legacySetTargetShape(current, "sinhala-hello")
        ELSE current

-----------------------------------------------------------------------------
(* components/ParticleHandTracker: the host wires the hooks together.  A render
   of the host evaluates useGestureDetection(landmarks), gets from useThreeScene
   the scene the previous render's effect created (the effect depends on the
   inline onAnimate callback, so every render creates another scene), and calls
   useParticleSystem(scene, shape); its effects run in the order of the hooks. *)

\* A well-formed frame: 21 landmarks in the rest pose, the listed tips raised
Pose(raisedTips) ==
  [k \in 1..21 |-> IF (k - 1) \in raisedTips THEN [RestLandmark EXCEPT !.y = 0]
                                             ELSE RestLandmark]

\* The frames the detector delivers to the host: no hand, a fist, a thumb-up-only
\* hand, a hand with the index finger raised
DetectorFrames ==
  {NullLandmarks, Hand(Pose({})), Hand(Pose({THUMB_TIP})), Hand(Pose({INDEX_TIP}))}

\* The effects of useParticleSystem(scene, shape) in a render of the host: the
\* effect of [scene] for the new scene, then the effect of [targetShape] when
\* shape is another target shape
\* The values a draw can have when the code makes it, one placeholder otherwise
Drawn(S, made) == IF made THEN S ELSE {CHOOSE x \in S : TRUE}

\* The effect of useThreeScene, which depends on the host's inline onAnimate
\* and so runs in every render: it tears its scene and render loop down and
\* creates the next
useThreeScene == sceneRef' = sceneRef + 1

\* scene is useThreeScene's result, sceneRef.current as read during the render
useParticleSystem(shape) ==
  /\ scene' = sceneRef
  /\ useThreeScene
  /\ UNCHANGED unmounted
  /\ \E ctx \in Drawn(Contexts2D, NeedsShapes(shapesRef)),
        lit \in Drawn(TextRasters, NeedsShapes(shapesRef)),
        seed \in Drawn(ScatterSeeds, NeedsShapes(shapesRef)),
        pos \in InitialPositions,
        draw \in Drawn(ScatterSeeds, shape # targetShape /\ Regenerates(shape)) :
       /\ initEffect(ctx, lit, seed, pos)
       /\ IF ~InitThrows(ctx) /\ shape # targetShape
            THEN /\ targetShape' = shape
                 /\ updateTargetShapeOf(shapesRef', GeneratedByInit(ctx), shape, draw)
            ELSE /\ generated' = GeneratedByInit(ctx)
                 /\ UNCHANGED <<targetShape, currentShape, targetPositions,
                                targetColors, allocs, targetSource>>
       /\ span' = IF InitThrows(ctx)
                    THEN span
                    ELSE Spanned(Spanned(SpanOf(pos), targetPositions.items),
                                 targetPositions'.items)

\* hands.onResults delivers a frame: setLandmarks, and the render it causes
HostFrame ==
  /\ ~renderError
  /\ ~initError
  /\ value.ref < MaxInputs
  /\ now + Delay <= MaxTime
  /\ \E lm \in DetectorFrames :
       /\ lm.present \/ landmarks.present
       /\ landmarks' = lm
       /\ useMemo(lm)
       /\ useThrottle(Input(gestureResult'.name, value.ref + 1))
  /\ useParticleSystem(mapGestureToShape(throttledValue.name))
  /\ UNCHANGED <<pvars, kvars>>

\* The throttle's timer callback runs; setThrottledValue with another object
\* renders the host again
HostTimer ==
  /\ ~renderError
  /\ ~initError
  /\ \E t \in timers : handlerCallback(t)
  /\ IF throttledValue' # throttledValue
       THEN useParticleSystem(mapGestureToShape(throttledValue'.name))
       ELSE UNCHANGED mvars
  /\ UNCHANGED <<gvars, pvars, kvars>>

\* Time passes between the host's events, half a throttle delay at a time
HostClock ==
  /\ now + Delay \div 2 <= MaxTime
  /\ now' = now + Delay \div 2
  /\ UNCHANGED <<value, throttledValue, lastRun, timers, handler, emissions>>
  /\ UNCHANGED <<gvars, mvars, pvars, kvars>>

HostNext ==
  \/ HostFrame
  \/ HostTimer
  \/ HostClock
  \/ animate

-----------------------------------------------------------------------------
(* hooks/useMediaPipeScripts.ts and useHandTracking (hooks/useThreeScene.ts):
   the two script load events, the tracking effect they trigger, and the
   component's unmount and remount.  A Hands or Camera instance is identified
   by the component instance (mounts) that constructed it. *)

MaxMounts == 4

NoScripts == [hands |-> FALSE, camera |-> FALSE]

\* What one run of the tracking effect can meet once both scripts are loaded
EffectOutcomes ==
  {"no-globals", "no-video", "hands-constructor-throws", "hands-setup-throws",
   "camera-constructor-throws", "camera-start-throws", "started"}

allReady_either(loaded) == loaded.hands \/ loaded.camera

\* The effect's first guard: both load events have fired
allReady(loaded) == loaded.hands /\ loaded.camera

\* new window.Hands(...) returned
HandsConstructed(outcome) ==
  outcome \in {"hands-setup-throws", "camera-constructor-throws",
               "camera-start-throws", "started"}

\* handsRef.current = hands was reached
HandsAssigned(outcome) ==
  outcome \in {"camera-constructor-throws", "camera-start-throws", "started"}

\* new window.Camera(...) returned
CameraConstructed(outcome) == outcome \in {"camera-start-throws", "started"}

\* The effect's cleanup, when the previous run returned it: close and stop
\* whatever the two refs hold
cleanup(instances, ref) ==
  IF cleanupFn /\ ref # 0 THEN instances \ {ref} ELSE instances

\* A re-run of the effect for the flags `loaded`: the previous run's cleanup,
\* then the effect's body
useHandTracking(loaded) ==
  IF ~allReady(loaded)
    THEN /\ openHands' = cleanup(openHands, handsRef)
         /\ liveCameras' = cleanup(liveCameras, cameraRef)
         /\ cleanupFn' = FALSE
         /\ UNCHANGED <<handsRef, cameraRef>>
    ELSE \E outcome \in EffectOutcomes :
           /\ openHands' = cleanup(openHands, handsRef) \cup
                             (IF HandsConstructed(outcome) THEN {mounts} ELSE {})
           /\ liveCameras' = cleanup(liveCameras, cameraRef) \cup
                               (IF CameraConstructed(outcome) THEN {mounts} ELSE {})
           /\ handsRef' = IF HandsAssigned(outcome) THEN mounts ELSE handsRef
           /\ cameraRef' = IF outcome = "started" THEN mounts ELSE cameraRef
           /\ cleanupFn' = (outcome = "started")

TrackingInit ==
  /\ scriptsLoaded = [hands |-> TRUE, camera |-> TRUE]
  /\ handsRef = 1
  /\ cameraRef = 1
  /\ openHands = {1}
  /\ liveCameras = {1}
  /\ cleanupFn = TRUE
  /\ trackingMounted = TRUE
  /\ mounts = 1

\* The Hands script's load event, and the render and effect that follow it
onHandsLoad ==
  /\ trackingMounted
  /\ ~scriptsLoaded.hands
  /\ scriptsLoaded' = [scriptsLoaded EXCEPT !.hands = TRUE]
  /\ useHandTracking(scriptsLoaded')
  /\ UNCHANGED <<trackingMounted, mounts>>
  /\ UNCHANGED <<gvars, tvars, mvars, pvars>>

\* The Camera script's load event, and the render and effect that follow it
onCameraLoad ==
  /\ trackingMounted
  /\ ~scriptsLoaded.camera
  /\ scriptsLoaded' = [scriptsLoaded EXCEPT !.camera = TRUE]
  /\ useHandTracking(scriptsLoaded')
  /\ UNCHANGED <<trackingMounted, mounts>>
  /\ UNCHANGED <<gvars, tvars, mvars, pvars>>

\* The component unmounts: the effect's cleanup runs if the last run returned it
TrackingUnmount ==
  /\ trackingMounted
  /\ trackingMounted' = FALSE
  /\ openHands' = cleanup(openHands, handsRef)
  /\ liveCameras' = cleanup(liveCameras, cameraRef)
  /\ cleanupFn' = FALSE
  /\ UNCHANGED <<scriptsLoaded, handsRef, cameraRef, mounts>>
  /\ UNCHANGED <<gvars, tvars, mvars, pvars>>

\* A new instance of the component mounts: fresh state and refs, and the
\* effect's first run finds no script loaded
TrackingMount ==
  /\ ~trackingMounted
  /\ mounts < MaxMounts
  /\ mounts' = mounts + 1
  /\ trackingMounted' = TRUE
  /\ scriptsLoaded' = NoScripts
  /\ handsRef' = 0
  /\ cameraRef' = 0
  /\ cleanupFn' = FALSE
  /\ UNCHANGED <<openHands, liveCameras>>
  /\ UNCHANGED <<gvars, tvars, mvars, pvars>>

TrackingNext ==
  \/ onHandsLoad
  \/ onCameraLoad
  \/ TrackingUnmount
  \/ TrackingMount

-----------------------------------------------------------------------------
(* Specifications *)

vars == <<gvars, tvars, mvars, pvars, kvars>>

Init == GestureInit /\ ThrottleInit /\ MorphInit /\ PureInit /\ TrackingInit

SpecGesture == Init /\ [][GestureNext]_vars

SpecThrottle == Init /\ [][ThrottleNext]_vars

\* The event loop runs a due timer callback, and time passes
SpecThrottleFair ==
  /\ SpecThrottle
  /\ WF_vars(TimerFires)
  /\ WF_vars(Advance)

SpecMorph == Init /\ [][MorphNext]_vars

SpecPure == Init /\ [][PureNext]_vars

SpecText == Init /\ [][TextNext]_vars

SpecTracking == Init /\ [][TrackingNext]_vars

\* The host, with the event loop running a due timer callback and time passing
SpecHost ==
  /\ Init /\ [][HostNext]_vars
  /\ WF_vars(HostTimer)
  /\ WF_vars(HostClock)

-----------------------------------------------------------------------------
(* Claims about the gesture classifier, checked under SpecGesture *)

\* A frame has been classified by a GestureRecognizer without an error
Classified == landmarks.present /\ recognizerRan /\ ~renderError

\* The claim's decision list: <<condition, name, confidence>>, first match wins
RuleList(s, raisedCount) ==
  << <<s.thumb /\ raisedCount = 0, "thumbs-up", 1>>,
     <<s.index /\ ~s.middle /\ ~s.ring /\ ~s.pinky, "index", 1>>,
     <<s.index /\ s.middle /\ ~s.ring /\ ~s.pinky, "peace", 1>>,
     <<s.index /\ s.middle /\ s.ring /\ ~s.pinky, "three-fingers", 1>>,
     <<raisedCount >= 4, "open-palm", 1>>,
     <<raisedCount = 0, "fist", 1>>,
     <<TRUE, "none", 0>> >>

FirstMatch(s) ==
  LET raisedCount == Cardinality({f \in {"index", "middle", "ring", "pinky"} : s[f]})
      rules == RuleList(s, raisedCount)
      first == CHOOSE i \in 1..Len(rules) :
                 rules[i][1] /\ \A j \in 1..(i - 1) : ~rules[j][1]
  IN  [name |-> rules[first][2], confidence |-> rules[first][3]]

\* C1: for every combination of the five raised flags, recognizeGesture returns
\* the result of the first matching rule of the fixed order thumbs-up, index,
\* peace, three-fingers, open-palm, fist, none, with confidence 1.0 for the
\* first six and 0.0 for none; raisedCount counts index, middle, ring, pinky.
C1_FirstMatchWins == Classified => gestureResult = FirstMatch(fingerState)

\* C1 witness: thumb raised alone is thumbs-up (rule 1 precedes rule 6)
C1_Witness ==
  /\ Classified
  /\ fingerState.thumb
  /\ countRaisedFingers(fingerState) = 0
  /\ gestureResult = Gesture("thumbs-up", 1)

\* Landmark k's y coordinate in the current frame (k is the MediaPipe index)
Y(k) == landmarks.points[k + 1].y

\* C2: getFingerState reports index, middle, ring, pinky raised exactly when
\* the tip y (landmarks 8, 12, 16, 20) is strictly less than the PIP y
\* (landmarks 6, 10, 14, 18), and thumb raised exactly when the thumb tip y
\* (landmark 4) is strictly less than the index MCP y (landmark 5); equal y is
\* not raised; x and z have no influence.
C2_RaisedIffTipAbove ==
  Classified =>
    /\ fingerState.thumb  <=> (Y(4) < Y(5))
    /\ fingerState.index  <=> (Y(8) < Y(6))
    /\ fingerState.middle <=> (Y(12) < Y(10))
    /\ fingerState.ring   <=> (Y(16) < Y(14))
    /\ fingerState.pinky  <=> (Y(20) < Y(18))

\* C2 witness: index tip level with its PIP (not raised) while the tip's x and
\* z differ from the PIP's, and the middle finger is raised
C2_Witness ==
  /\ Classified
  /\ Y(8) = Y(6)
  /\ ~fingerState.index
  /\ landmarks.points[9].x # landmarks.points[7].x
  /\ landmarks.points[9].z # landmarks.points[7].z
  /\ fingerState.middle

\* C3 (as claimed): a frame whose point count is not 21 is classified as no
\* hand, {none, 0.0}, and classification never throws for it.
C3_MalformedIsNoHand ==
  (landmarks.present /\ Len(landmarks.points) # 21) =>
    (~renderError /\ gestureResult = Gesture("none", 0))

\* C4: when the landmark input is null or an empty sequence the gesture result
\* is {none, 0.0} and no recognizer is run on it.
C4_AbsentIsNone ==
  (~landmarks.present \/ Len(landmarks.points) = 0) =>
    (gestureResult = Gesture("none", 0) /\ ~recognizerRan /\ ~renderError)

\* C4 witness: an empty frame has been delivered
C4_Witness ==
  /\ landmarks.present
  /\ Len(landmarks.points) = 0
  /\ gestureResult = Gesture("none", 0)

-----------------------------------------------------------------------------
(* Claims about the throttle, checked under SpecThrottle and SpecThrottleFair *)

\* The time of the emission before the i-th: the mount (time 0) before the first
Before(i) == IF i = 1 THEN 0 ELSE emissions[i - 1].time

LastEmitted ==
  IF emissions = <<>> THEN Input("none", 0) ELSE emissions[Len(emissions)].value

\* C5: useThrottle holds the previously emitted value until at least `delay` ms
\* have elapsed since the last emission: between mount and the first adoption
\* and between two consecutive adoptions at least `delay` ms pass, and the
\* returned value does not change in between, whatever inputs arrive.
C5_HoldsForDelay ==
  /\ \A i \in 1..Len(emissions) : emissions[i].time - Before(i) >= Delay
  /\ throttledValue = LastEmitted

\* C5 witness: inputs at t = 0, 10, 50 (none, fist, none) and the first
\* adoption at t = 100
C5_Witness ==
  /\ Len(emissions) = 1
  /\ emissions[1].time = 100
  /\ emissions[1].value = Input("none", 2)
  /\ throttledValue = Input("none", 2)

AllInputs == {Input(name, ref) : name \in ThrottleInputs, ref \in 0..MaxInputs}

\* C7: once at least `delay` ms have elapsed since the last emission the
\* throttle adopts the latest value and resets its clock: an input that changes
\* to V and stays V is eventually the throttled output, and every adoption sets
\* the recorded last-emission time to the time of the adoption.
C7_EventuallyAdopts ==
  /\ \A v \in AllInputs : <>[](value = v) => <>[](throttledValue = v)
  /\ [][Len(emissions') > Len(emissions) => lastRun' = now']_vars

\* C7 witness: a changed input has been adopted and the clock reset to the
\* time of that adoption
C7_Witness ==
  /\ Len(emissions) >= 2
  /\ value.ref >= 1
  /\ throttledValue = value
  /\ lastRun = emissions[Len(emissions)].time
  /\ lastRun > Delay

-----------------------------------------------------------------------------
(* Claims about the morph engine, checked under SpecMorph *)

\* C8 (as claimed): setting the target to the shape that is already active is a
\* no-op: a call of updateTargetShape with the active shape's id leaves the
\* target-position and target-color arrays unchanged by reference and by content.
C8_SameShapeIsNoOp ==
  [][(allocs > 0 /\ allocs' # allocs /\ currentShape' = currentShape)
       => (targetPositions' = targetPositions /\ targetColors' = targetColors)]_vars

\* C9 (as claimed): on every tick the position lerp factor is chosen from the
\* shape that is active at that tick: SCATTER_LERP_FACTOR when it is scatter,
\* DEFAULT_LERP_FACTOR otherwise.
C9_FactorOfActiveShape ==
  [][ticks' # ticks =>
       posLerpFactor' = IF currentShape' = "scatter"
                          THEN SCATTER_LERP_FACTOR ELSE DEFAULT_LERP_FACTOR]_vars

\* C10 (as claimed): when a shape with an empty point set is selected, every
\* particle's target is taken from the sphere point set, no target entry is
\* undefined, and neither setTarget nor a later tick throws.
C10_EmptyShapeFallsBack ==
  (allocs > 0 /\ currentShape \in TextKeys /\ Len(shapesRef.points[currentShape]) = 0) =>
    /\ \A i \in 1..COUNT :
         /\ targetPositions.items[i] # Undefined
         /\ targetPositions.items[i] = shapesRef.points["sphere"][((i - 1) % COUNT) + 1]
    /\ ~tickError

\* The point set the current targets were built from: the shape's cached set,
\* or, for scatter, one of the clouds a regeneration can draw
PointSetsOf(shapeKey) ==
  IF shapeKey = "scatter"
    THEN {getScatterCoordinates(COUNT, seed) : seed \in ScatterSeeds}
    ELSE {shapesRef.points[shapeKey]}

\* C11: after setTarget(shape) with a non-empty point set P of length L and
\* particle count N, the target-position array has exactly N entries with
\* targetPosition[i] = P[i mod L] for every i in [0, N), and the target-color
\* array has exactly N entries that all equal the shape's single color.
C11_TargetsWrapAround ==
  allocs > 0 =>
    \E P \in PointSetsOf(currentShape) :
      Len(P) > 0 =>
        /\ Len(targetPositions.items) = COUNT
        /\ \A i \in 0..(COUNT - 1) :
             targetPositions.items[i + 1] = P[(i % Len(P)) + 1]
        /\ Len(targetColors.items) = COUNT
        /\ \A i \in 1..COUNT : targetColors.items[i] = SHAPE_COLORS[currentShape]

\* C11 witness: 'hello' has fewer points than particles (the single point is
\* every particle's target)
C11_Witness ==
  /\ allocs > 0
  /\ currentShape = "hello"
  /\ Len(shapesRef.points["hello"]) = 1
  /\ Len(shapesRef.points["hello"]) < COUNT
  /\ \A i \in 1..COUNT : targetPositions.items[i] = shapesRef.points["hello"][1]
  /\ targetColors.items[COUNT] = SHAPE_COLORS["hello"]

\* C12 (as claimed): the current-position and current-color buffers are
\* allocated exactly once at startup, always have N entries of three values,
\* and are afterwards only changed by ticks: no re-render, scene change or
\* shape switch replaces them or resets their contents to fresh random positions.
C12_BuffersAllocatedOnce ==
  [][geometryRef # 0 =>
       /\ geometryRef' = geometryRef
       /\ Len(positions') = COUNT /\ Len(colors') = COUNT
       /\ (positions' # positions \/ colors' # colors) => ticks' = ticks + 1]_vars

\* C14: a tick executed while no target has been set (the target arrays are
\* empty) is a safe no-op: it does not throw and leaves every current position
\* and current color value unchanged.
\* (a tick is a requested frame, or the call of animate by startAnimation in
\* the initialization effect, which runs on the freshly filled buffers; an
\* initialization effect that throws before startAnimation makes no tick).
C14_UntargetedTickIsNoOp ==
  [][Len(targetPositions.items) = 0 =>
       /\ animate => (positions' = positions /\ colors' = colors /\ ~tickError')
       /\ (InitEffect /\ ~initError') =>
            (positions' \in InitialPositions /\ colors' = InitialColors /\ ~tickError')]_vars

\* C14 witness: the loop is running (startAnimation has called animate, and
\* frames are pending) on untouched buffers while no target was ever set
C14_Witness ==
  /\ frames # {}
  /\ geometryRef # 0
  /\ allocs = 0
  /\ Len(targetPositions.items) = 0
  /\ positions \in InitialPositions
  /\ colors = InitialColors
  /\ ~tickError

\* C15 (as claimed): when the 2D drawing context is unavailable the text
\* generator signals a failure that is distinguishable from a valid empty shape,
\* a text that lights no sampled pixel yields an empty point set without error,
\* and the failure affects only that shape: the host still builds and uses the
\* remaining shapes (the sphere) and keeps its particle system.
C15_TextFailureIsPerShape ==
  /\ initError => (shapesRef.generated /\ shapesRef.points["sphere"] # <<>> /\ geometryRef # 0)
  /\ (shapesRef.generated /\ shapesRef.points["hello"] = <<>>) => ~initError

\* C16: every time the scatter shape is selected as target, the targets are
\* built from a scatter point set generated at that selection; the set
\* generated at initialization or at an earlier selection is never reused.
C16_ScatterIsRegenerated ==
  [][(allocs' # allocs /\ currentShape' = "scatter") =>
       /\ generated'["scatter"] = generated["scatter"] + 1
       /\ targetSource' = [shape |-> "scatter", generation |-> generated'["scatter"]]
       /\ \E seed \in ScatterSeeds :
            \A i \in 1..COUNT :
              targetPositions'.items[i] = getScatterCoordinates(COUNT, seed)[i]]_vars

\* C16 witness: scatter has been selected a second time (third generation,
\* the first being the one of the initialization)
C16_Witness ==
  /\ currentShape = "scatter"
  /\ generated["scatter"] = 3
  /\ targetSource = [shape |-> "scatter", generation |-> 3]

\* C17: the sphere point set and each text point set are generated at most once
\* per session and the same set is reused for every later selection of that
\* shape, across shape switches and re-runs of the initialization effect.
C17_CachedShapesGeneratedOnce ==
  \A k \in ShapeKeys \ {"scatter"} :
    /\ generated[k] <= 1
    /\ (allocs > 0 /\ targetSource.shape = k) =>
         /\ targetSource.generation = 1
         /\ \A i \in 1..COUNT :
              targetPositions.items[i] = TargetOf(shapesRef.points[k], i - 1)

\* C17 witness: the initialization effect has run again and a text shape was
\* selected again after another shape
C17_Witness ==
  /\ scene = 2
  /\ allocs = 3
  /\ currentShape = "gemini"
  /\ targetSource = [shape |-> "gemini", generation |-> 1]
  /\ generated["gemini"] = 1

-----------------------------------------------------------------------------
(* More claims about the gesture classifier, checked under SpecGesture *)

\* The fingers among index, middle, ring, pinky that the current frame raises
\* (tip above PIP), read from the landmarks
RaisedFingers ==
  {f \in {<<"index", 8, 6>>, <<"middle", 12, 10>>, <<"ring", 16, 14>>, <<"pinky", 20, 18>>} :
     Y(f[2]) < Y(f[3])}

\* C20: for every 21-landmark frame in which exactly one of index, middle,
\* ring, pinky is raised and the thumb is not raised, the classification is
\* index (when that finger is the index) or the fallback none (when it is
\* middle, ring or pinky); never peace, three-fingers, open-palm, fist, thumbs-up.
C20_SingleFinger ==
  (landmarks.present /\ Len(landmarks.points) = 21
     /\ Cardinality(RaisedFingers) = 1 /\ ~(Y(4) < Y(5))) =>
    /\ ~renderError
    /\ gestureResult = IF \E f \in RaisedFingers : f[1] = "index"
                         THEN Gesture("index", 1) ELSE Gesture("none", 0)

\* C20 witness: the pinky alone is raised and the result is the fallback
C20_Witness ==
  /\ landmarks.present /\ Len(landmarks.points) = 21
  /\ \E f \in RaisedFingers : f[1] = "pinky"
  /\ Cardinality(RaisedFingers) = 1
  /\ ~(Y(4) < Y(5))
  /\ gestureResult = Gesture("none", 0)

-----------------------------------------------------------------------------
(* Claims about the pure functions, checked under SpecPure *)

\* The mapping the claim lists; every other string goes to sphere
ClaimedShape(gestureName) ==
  CASE gestureName = "thumbs-up"     -> "scatter"
    [] gestureName = "index"         -> "hello"
    [] gestureName = "peace"         -> "gemini"
    [] gestureName = "three-fingers" -> "sinhala-great"
    [] gestureName = "open-palm"     -> "sphere"
    [] gestureName = "fist"          -> "sinhala-hello"
    [] OTHER                         -> "sphere"

\* C18 (as claimed): mapGestureToShape is a total function with thumbs-up ->
\* scatter, index -> hello, peace -> gemini, three-fingers -> sinhala-great,
\* open-palm -> sphere, fist -> sinhala-hello, none and every other string ->
\* sphere, so its result is always one of the six shape ids; the display-label
\* lookup returns STANDBY for none and for every unmapped name.
C18_MapIsTotal ==
  /\ mapResult.shape = ClaimedShape(mapArg)
  /\ mapResult.shape \in ShapeKeys
  /\ mapArg \notin {"thumbs-up", "index", "peace", "three-fingers", "open-palm", "fist"}
       => mapResult.displayName = "STANDBY"

Dist(a, b) == IF a >= b THEN a - b ELSE b - a

\* One coordinate's step from c to c2 towards t contracts: it never moves away
\* from t, never passes t, moves whenever the exact step (t - c) * f is more
\* than half a grid unit, and is exact whenever c + (t - c) * f is representable
Contracts(c, c2, t, factor) ==
  /\ Dist(t, c2) <= Dist(t, c)
  /\ (c <= t => c2 <= t) /\ (c >= t => c2 >= t)
  /\ 2 * Dist(t, c) * factor > 100 => Dist(t, c2) < Dist(t, c)
  /\ ((t - c) * factor) % 100 = 0 => c2 = c + ((t - c) * factor) \div 100

-----------------------------------------------------------------------------
(* Claims about the host, checked under SpecHost *)

\* The frame is a thumb-up-only hand: thumb raised, no other finger raised
ThumbUpOnly(lm) ==
  /\ lm.present
  /\ ~Throws(lm.points)
  /\ getFingerState(lm.points) =
       [thumb |-> TRUE, index |-> FALSE, middle |-> FALSE, ring |-> FALSE, pinky |-> FALSE]

GestureNames == {"thumbs-up", "index", "peace", "three-fingers", "open-palm", "fist", "none"}

\* The targets are built from the latest scatter cloud, generated after the
\* one of the initialization
FreshScatterTargets ==
  /\ currentShape = "scatter"
  /\ targetSource.shape = "scatter"
  /\ targetSource.generation = generated["scatter"]
  /\ targetSource.generation >= 2
  /\ \E seed \in ScatterSeeds :
       targetPositions.items =
         [i \in 1..COUNT |-> TargetOf(getScatterCoordinates(COUNT, seed), i - 1)]

\* C13: while the detector keeps delivering a thumb-up-only hand the classifier
\* yields thumbs-up, the throttled gesture eventually becomes thumbs-up, its
\* mapped shape is scatter, the targets are eventually rebuilt from a freshly
\* generated scatter cloud, and every later tick moves the current positions
\* toward the targets; a gesture G held long enough eventually makes the active
\* shape mapGestureToShape(G).  (The particle system has initialized: a 2D
\* context was available for the text shapes.)
C13_EndToEnd ==
  /\ [](ThumbUpOnly(landmarks) /\ ~renderError => gestureResult.name = "thumbs-up")
  /\ [](~initError => targetShape = mapGestureToShape(throttledValue.name))
  /\ <>[](ThumbUpOnly(landmarks) /\ ~initError)
       => <>[](/\ throttledValue.name = "thumbs-up"
               /\ targetShape = "scatter"
               /\ FreshScatterTargets)
  /\ \A G \in GestureNames :
       <>[](gestureResult.name = G /\ ~initError)
         => <>[](currentShape = mapGestureToShape(G))
  /\ [][animate /\ ticks' = ticks + 1 =>
          \A i \in 1..COUNT, c \in 1..3 :
            Contracts(positions[i][c], positions'[i][c], targetPositions.items[i][c],
                      posLerpFactor')]_vars

\* C13 witness: a thumb-up-only hand is held, the throttled gesture is
\* thumbs-up, the targets are a fresh scatter cloud, and the one tick since
\* has moved every particle from its initial position toward them
C13_Witness ==
  /\ ThumbUpOnly(landmarks)
  /\ throttledValue.name = "thumbs-up"
  /\ FreshScatterTargets
  /\ allocs = 1
  /\ ticks = 1
  /\ \E pos \in InitialPositions :
       /\ positions = lerpArray(pos, targetPositions.items, posLerpFactor)
       /\ \A i \in 1..COUNT : positions[i] # pos[i]

-----------------------------------------------------------------------------
(* Further claims about the gesture classifier, checked under SpecGesture *)

\* The names of the raised fingers, and whether the thumb is raised (tip above
\* the index finger's MCP), read from the landmarks
RaisedNames == {f[1] : f \in RaisedFingers}
ThumbRaised == Y(4) < Y(5)

\* The prefixes of the order index, middle, ring, pinky
Prefixes ==
  {{}, {"index"}, {"index", "middle"}, {"index", "middle", "ring"},
   {"index", "middle", "ring", "pinky"}}

\* C29: recognizeGesture returns none exactly when the set of raised fingers
\* among index, middle, ring, pinky is not a prefix of that order; fist is
\* returned only when the thumb is not raised, thumbs-up only when it is, and
\* for every non-empty raised set the result is decided by that set alone, the
\* thumb flag has no effect.
C29_NoneIffNotPrefix ==
  Classified =>
    /\ gestureResult.name = "none" <=> RaisedNames \notin Prefixes
    /\ gestureResult.name = "fist" => ~ThumbRaised
    /\ gestureResult.name = "thumbs-up" => ThumbRaised
    /\ RaisedNames # {} =>
         gestureResult =
           CASE RaisedNames = {"index"}                            -> Gesture("index", 1)
             [] RaisedNames = {"index", "middle"}                  -> Gesture("peace", 1)
             [] RaisedNames = {"index", "middle", "ring"}          -> Gesture("three-fingers", 1)
             [] RaisedNames = {"index", "middle", "ring", "pinky"} -> Gesture("open-palm", 1)
             [] OTHER                                              -> Gesture("none", 0)

\* C29 witness: the thumb and a non-prefix set (middle and pinky) are raised,
\* and the result is none
C29_Witness ==
  /\ Classified
  /\ ThumbRaised
  /\ RaisedNames = {"middle", "pinky"}
  /\ gestureResult = Gesture("none", 0)

C30_LegacySelectsSameShape ==
  \A current \in ShapeKeys :
    /\ (Classified /\ gestureResult.name # "none") =>
         legacyOnResults(landmarks, current) = mapGestureToShape(gestureResult.name)
    /\ ((Classified /\ gestureResult.name = "none") \/ ~landmarks.present) =>
         /\ legacyOnResults(landmarks, current) = current
         /\ mapGestureToShape(gestureResult.name) = "sphere"

\* C30 witness: index, middle and ring are raised: three-fingers, and both
\* select sinhala-great
C30_Witness ==
  /\ Classified
  /\ gestureResult.name = "three-fingers"
  /\ legacyOnResults(landmarks, "sphere") = "sinhala-great"
  /\ mapGestureToShape(gestureResult.name) = "sinhala-great"

-----------------------------------------------------------------------------
(* Claims about the text generator, checked under SpecText *)

\* The sampled pixels (both coordinates multiples of the stride, inside the
\* canvas) whose sampled value is above the threshold
LitSamples ==
  {p \in (0..(TEXT_CANVAS_SIZE - 1)) \X (0..(TEXT_CANVAS_SIZE - 1)) :
     /\ p[1] % TEXT_STEP = 0 /\ p[2] % TEXT_STEP = 0
     /\ imageData[(p[2] * TEXT_CANVAS_SIZE + p[1]) * 4] > 128}

\* The point of pixel (px, py), in 1/200 units
PointOf(p) ==
  <<(2 * p[1] - TEXT_CANVAS_SIZE) * TEXT_SCALE, (TEXT_CANVAS_SIZE - 2 * p[2]) * TEXT_SCALE, 0>>

\* C23: the generator emits exactly one point for every sampled pixel (px, py)
\* whose value is strictly greater than the threshold 128 and none for any
\* other pixel; the point is x = (px - size/2) * scale, y = -(py - size/2) * scale,
\* z = 0; the points are in row-major scan order; the count is the number of
\* lit sampled pixels, whatever the particle count.
C23_OnePointPerLitSample ==
  /\ Len(coords) = Cardinality(LitSamples)
  /\ \A p \in LitSamples : \E n \in 1..Len(coords) : coords[n] = PointOf(p)
  /\ \A n \in 1..Len(coords) : \E p \in LitSamples : coords[n] = PointOf(p)
  /\ \A m, n \in 1..Len(coords) :
       m < n => \/ coords[m][2] > coords[n][2]
                \/ coords[m][2] = coords[n][2] /\ coords[m][1] < coords[n][1]

\* C23 witness: three sampled pixels are lit, one more than there are
\* particles; the fourth is exactly at the threshold and a pixel between the
\* samples is white: neither gives a point
C23_Witness ==
  /\ imageData[0] = 255
  /\ imageData[TEXT_STEP * 4] = 129
  /\ imageData[(TEXT_STEP * TEXT_CANVAS_SIZE) * 4] = 128
  /\ imageData[(TEXT_STEP * TEXT_CANVAS_SIZE + TEXT_STEP) * 4] = 255
  /\ imageData[4] = 255
  /\ coords = <<PointOf(<<0, 0>>), PointOf(<<TEXT_STEP, 0>>), PointOf(<<TEXT_STEP, TEXT_STEP>>)>>
  /\ Len(coords) = COUNT + 1

-----------------------------------------------------------------------------
(* Further claims about the morph engine, checked under SpecMorph *)

\* v lies between a and b, ends included
Between(v, a, b) == (a <= v /\ v <= b) \/ (b <= v /\ v <= a)

\* C28: after any sequence of target changes and ticks every current color
\* channel is within [0, 1], and every current position coordinate is within
\* the interval spanned by its initial value and all the target coordinates it
\* has been given: each tick's result lies between the previous value and the
\* target.
C28_ValuesStayInRange ==
  /\ [](/\ \A i \in 1..Len(colors), c \in 1..3 : Between(colors[i][c], 0, Scale)
        /\ Len(span) = Len(positions)
        /\ \A i \in 1..Len(positions), c \in 1..3 :
             Between(positions[i][c], span[i][c].lo, span[i][c].hi))
  /\ [][(animate /\ ticks' = ticks + 1) =>
          \A i \in 1..COUNT, c \in 1..3 :
            /\ Between(positions'[i][c], positions[i][c], targetPositions.items[i][c])
            /\ Between(colors'[i][c], colors[i][c], targetColors.items[i][c])]_vars

\* C28 witness: the target was changed after a tick: a coordinate is strictly
\* inside its interval, away from its current target, and a color channel is
\* strictly inside [0, 1]
C28_Witness ==
  /\ ticks >= 1
  /\ allocs >= 2
  /\ ~tickError
  /\ \E i \in 1..Len(positions), c \in 1..3 :
       /\ span[i][c].lo < positions[i][c]
       /\ positions[i][c] < span[i][c].hi
       /\ targetPositions.items[i] # Undefined
       /\ positions[i][c] # targetPositions.items[i][c]
       /\ 0 < colors[i][c] /\ colors[i][c] < Scale

\* C25 (as claimed): once the particle system has been initialized with a
\* scene the engine has left Idle for the requested shape, also when the
\* requested shape never changed: the target arrays are non-empty and built
\* from the requested shape (from the sphere while the request is the default).
C25_InitializedEngineHasTargets ==
  (geometryRef # 0 /\ ~initError) =>
    /\ Len(targetPositions.items) = COUNT
    /\ Len(targetColors.items) = COUNT
    /\ targetSource.shape = targetShape
    /\ targetSource.generation >= 1

\* C27: at most one particle animation loop is scheduled at any time: the
\* pending frame is the one requested last and belongs to the loop of the
\* current geometry; after the cleanup of an unmount no frame is pending, so
\* no tick of an old loop runs and no tick writes to a disposed geometry.
C27_OneAnimationLoop ==
  /\ Cardinality(frames) <= 1
  /\ \A f \in frames : f.loop = animationIdRef /\ f.loop = geometryRef
  /\ unmounted => frames = {}

\* C27 witness: the effect has run for a second scene after a tick of the
\* first loop, and the one pending frame is the second loop's
C27_Witness ==
  /\ scene >= 2
  /\ Cardinality(frames) = 1
  /\ \A f \in frames : f.loop = scene
  /\ geometryRef = scene
  /\ ~unmounted

-----------------------------------------------------------------------------
(* Further claims about the host, checked under SpecHost *)

\* C26 (as claimed): after any sequence of re-renders the particles the
\* particle loop updates are a child of the scene the active render loop
\* renders, never only of a scene that has been replaced or torn down.
C26_ParticlesInRenderedScene ==
  geometryRef # 0 => geometryRef = sceneRef

-----------------------------------------------------------------------------
(* Claims about script loading and hand tracking, checked under SpecTracking *)

\* The mounted component has constructed a Hands or a Camera instance
TrackingTouched ==
  \/ mounts \in openHands
  \/ mounts \in liveCameras
  \/ handsRef # 0
  \/ cameraRef # 0
  \/ cleanupFn

\* C24: the mounted component constructs Hands, registers the results callback
\* and starts the camera only once both load flags are true; while it stays
\* mounted a true flag never turns false, and a step that changes one flag
\* leaves the other as it was.
C24_InitAfterBothScripts ==
  /\ [](trackingMounted /\ TrackingTouched => scriptsLoaded.hands /\ scriptsLoaded.camera)
  /\ [][trackingMounted /\ trackingMounted' =>
          /\ scriptsLoaded.hands => scriptsLoaded'.hands
          /\ scriptsLoaded.camera => scriptsLoaded'.camera
          /\ scriptsLoaded'.hands # scriptsLoaded.hands =>
               scriptsLoaded'.camera = scriptsLoaded.camera
          /\ scriptsLoaded'.camera # scriptsLoaded.camera =>
               scriptsLoaded'.hands = scriptsLoaded.hands]_vars

\* C24 witness: a component mounted with no script loaded has seen both load
\* events and started tracking
C24_Witness ==
  /\ mounts = 2
  /\ trackingMounted
  /\ scriptsLoaded.hands /\ scriptsLoaded.camera
  /\ handsRef = 2 /\ cameraRef = 2
  /\ cleanupFn

\* C22: once the component is unmounted, every Hands instance it constructed
\* is closed and every Camera instance it constructed is stopped.
C22_TeardownReleasesAll ==
  ~trackingMounted => openHands = {} /\ liveCameras = {}

=============================================================================
